---- MODULE Spec2Model ----
(***************************************************************************)
(* Move-quality classification and engine-session lifecycle of the         *)
(* ZeroGambit analysis backend:                                            *)
(*   api/services/stockfish_analyzer.py  classify_move_by_cp_loss,         *)
(*                                       StockfishAnalyzer, analyze_game_pgn*)
(*   api/services/analysis.py            analyze_game_moves                *)
(*                                                                         *)
(* Optional[int] values are sequences: <<>> is None, <<v>> is the int v.   *)
(* SAN text is a sequence of one-character strings.                        *)
(***************************************************************************)
EXTENDS Integers, Sequences, FiniteSets, TLC

VARIABLES
    c_args,     \* arguments of the classify_move_by_cp_loss call
    c_pc,       \* "call" before the call, "returned" after it
    c_label,    \* the label the call returned
    \* ---- the engine session (StockfishAnalyzer) and the processes ----
    self_engine,     \* self._engine: None or the handle of a process
    self_transport,  \* self._transport
    procs,           \* every engine subprocess spawned so far, by handle:
                     \* "running", "quit" (told to quit), "dead" (crashed,
                     \* or closed by popen_uci after a failed initialisation)
                     \* or "wedged" (alive, never answers again)
    path_is_file,    \* os.path.isfile(self.stockfish_path)
    path_default,    \* self.stockfish_path in ["stockfish", "stockfish.exe"]
    \* ---- the running coroutines ----
    stack,           \* call stack of the task: frames [fn, pc], top is last
    ret,             \* outcome of the frame that returned last
    top_op,          \* the function the caller invoked (bottom frame)
    calls,           \* number of calls the caller has made
    cancels,         \* number of cancellations delivered to the task
    ap_board,        \* the board passed to analyze_position
    start_outcome,   \* what the last start() did about launching
    analyse_outcome, \* what engine.analyse did in the last analyze_position
    failed_starts,   \* number of start() calls that failed to launch so far
    \* ---- one analysis of one game ----
    game,            \* the parsed PGN: [parse, turn, moves]
    ag,              \* locals of StockfishAnalyzer.analyze_game
    pgn_pending,     \* analyze_game_pgn: outcome of the try block while the
                     \* finally block runs
    gm,              \* locals of analyze_game_moves
    doc,             \* the game document of the database that
                     \* run_analysis_task updates
    \* ---- overlapping callers ----
    parked,          \* the stack and outcome of a second coroutine on the
                     \* same session, suspended while this one runs
    trig,            \* trigger_analysis for the game: requests awaiting
                     \* find_one, tasks queued, responses given
    \* ---- one call of a pure function other than the classifier ----
    p_args,     \* its arguments
    p_pc,       \* "call" before the call, "returned" after it
    p_out       \* what it returned

cvars == <<c_args, c_pc, c_label>>

sess == <<self_engine, self_transport>>

\* what no step of start(), stop() or analyze_position() changes
envv == <<path_is_file, path_default, game, ag, pgn_pending, gm, doc,
          c_args, c_pc, c_label, p_args, p_pc, p_out, parked, trig>>

\* what no step of an analysis changes
fixed == <<path_is_file, path_default, game, doc,
           c_args, c_pc, c_label, p_args, p_pc, p_out, parked, trig>>

\* what no step of run_analysis_task changes
rtfixed == <<path_is_file, path_default, game,
             c_args, c_pc, c_label, p_args, p_pc, p_out, parked, trig>>

pvars == <<p_args, p_pc, p_out>>

hist == <<start_outcome, analyse_outcome, failed_starts>>

ctl == <<top_op, calls, cancels, ap_board>>

svars == <<self_engine, self_transport, procs, path_is_file, path_default,
           stack, ret, top_op, calls, cancels, ap_board,
           start_outcome, analyse_outcome, failed_starts,
           game, ag, pgn_pending, gm, doc, parked, trig>>

vars == <<c_args, c_pc, c_label,
          self_engine, self_transport, procs, path_is_file, path_default,
          stack, ret, top_op, calls, cancels, ap_board,
          start_outcome, analyse_outcome, failed_starts,
          game, ag, pgn_pending, gm, doc, p_args, p_pc, p_out, parked, trig>>

----------------------------------------------------------------------------
(* Values *)

None == <<>>

Some(v) == <<v>>

IsNone(o) == o = None

Val(o) == o[1]

\* '=' in move_san
HasEquals(move_san) == \E i \in 1..Len(move_san) : move_san[i] = "="

----------------------------------------------------------------------------
(* Bounds of the classifier inputs *)

MaxCp == 260

MaxMoveNumber == 12

CpBeforeVals == {-100, 0, 50, 100}

SanVals == { <<"N", "f", "3">>, <<"e", "8", "=", "Q">>, <<"e", "x", "d", "1", "=", "N", "+">> }

MoveNumbers == {1, 4} \cup (9..MaxMoveNumber) \cup {15, 20}

ClassifyArgs ==
    [ cp_before : {None} \cup { Some(v) : v \in CpBeforeVals },
      cp_after : {None} \cup { Some(v) : v \in -MaxCp..MaxCp },
      is_white_to_move : BOOLEAN,
      move_san : SanVals,
      move_number : MoveNumbers ]

----------------------------------------------------------------------------
(* classify_move_by_cp_loss *)

\* the signed centipawn loss from the mover's perspective
cp_loss(cp_before, cp_after, is_white_to_move) ==
    IF is_white_to_move THEN Val(cp_before) - Val(cp_after)
                        ELSE Val(cp_after) - Val(cp_before)

\* the banding of a loss once book, missing, best and brilliant are excluded
band(loss) ==
    IF loss <= 5 THEN "great"
    ELSE IF loss <= 15 THEN "excellent"
    ELSE IF loss <= 30 THEN "good"
    ELSE IF loss <= 70 THEN "inaccuracy"
    ELSE IF loss <= 200 THEN "mistake"
    ELSE "blunder"

\* mutant: the book window ends one move early
classify_book_lt(cp_before, cp_after, is_white_to_move, move_san, move_number) ==
    IF move_number < 10 THEN "book"
    ELSE IF IsNone(cp_before) \/ IsNone(cp_after) THEN "normal"
    ELSE LET loss == cp_loss(cp_before, cp_after, is_white_to_move) IN
         IF loss = 0 THEN "best"
         ELSE IF loss <= 5 /\ HasEquals(move_san) THEN "brilliant"
         ELSE band(loss)

\* mutant: strict comparisons in the bands
classify_band_strict(cp_before, cp_after, is_white_to_move, move_san, move_number) ==
    IF move_number <= 10 THEN "book"
    ELSE IF IsNone(cp_before) \/ IsNone(cp_after) THEN "normal"
    ELSE LET loss == cp_loss(cp_before, cp_after, is_white_to_move) IN
         IF loss = 0 THEN "best"
         ELSE IF loss <= 5 /\ HasEquals(move_san) THEN "brilliant"
         ELSE IF loss < 5 THEN "great"
         ELSE IF loss < 15 THEN "excellent"
         ELSE IF loss < 30 THEN "good"
         ELSE IF loss < 70 THEN "inaccuracy"
         ELSE IF loss < 200 THEN "mistake"
         ELSE "blunder"

\* mutant: the promotion uplift is tested before the exact-best check
classify_promo_first(cp_before, cp_after, is_white_to_move, move_san, move_number) ==
    IF move_number <= 10 THEN "book"
    ELSE IF IsNone(cp_before) \/ IsNone(cp_after) THEN "normal"
    ELSE LET loss == cp_loss(cp_before, cp_after, is_white_to_move) IN
         IF loss <= 5 /\ HasEquals(move_san) THEN "brilliant"
         ELSE IF loss = 0 THEN "best"
         ELSE band(loss)

\* mutant: the uplift forgets the promotion test
classify_uplift_any(cp_before, cp_after, is_white_to_move, move_san, move_number) ==
    IF move_number <= 10 THEN "book"
    ELSE IF IsNone(cp_before) \/ IsNone(cp_after) THEN "normal"
    ELSE LET loss == cp_loss(cp_before, cp_after, is_white_to_move) IN
         IF loss = 0 THEN "best"
         ELSE IF loss <= 5 THEN "brilliant"
         ELSE band(loss)

\* mutant: the loss is clamped at zero before the exact-best check
classify_clamped(cp_before, cp_after, is_white_to_move, move_san, move_number) ==
    IF move_number <= 10 THEN "book"
    ELSE IF IsNone(cp_before) \/ IsNone(cp_after) THEN "normal"
    ELSE LET raw == cp_loss(cp_before, cp_after, is_white_to_move)
             loss == IF raw < 0 THEN 0 ELSE raw IN
         IF loss = 0 THEN "best"
         ELSE IF loss <= 5 /\ HasEquals(move_san) THEN "brilliant"
         ELSE band(loss)

\* mutant: the missing evaluation is looked at before the book window
classify_missing_first(cp_before, cp_after, is_white_to_move, move_san, move_number) ==
    IF IsNone(cp_before) \/ IsNone(cp_after) THEN "normal"
    ELSE IF move_number <= 10 THEN "book"
    ELSE LET loss == cp_loss(cp_before, cp_after, is_white_to_move) IN
         IF loss = 0 THEN "best"
         ELSE IF loss <= 5 /\ HasEquals(move_san) THEN "brilliant"
         ELSE band(loss)

\* mutant: a missing evaluation is taken as 0
classify_missing_zero(cp_before, cp_after, is_white_to_move, move_san, move_number) ==
    IF move_number <= 10 THEN "book"
    ELSE LET loss == cp_loss(IF IsNone(cp_before) THEN Some(0) ELSE cp_before,
                             IF IsNone(cp_after) THEN Some(0) ELSE cp_after,
                             is_white_to_move) IN
         IF loss = 0 THEN "best"
         ELSE IF loss <= 5 /\ HasEquals(move_san) THEN "brilliant"
         ELSE band(loss)

\* mutant: while the session has an engine a missing evaluation counts as book
classify_engine_aware(cp_before, cp_after, is_white_to_move, move_san, move_number) ==
    IF move_number <= 10 THEN "book"
    ELSE IF IsNone(cp_before) \/ IsNone(cp_after)
           THEN (IF self_engine # None THEN "book" ELSE "normal")
    ELSE LET loss == cp_loss(cp_before, cp_after, is_white_to_move) IN
         IF loss = 0 THEN "best"
         ELSE IF loss <= 5 /\ HasEquals(move_san) THEN "brilliant"
         ELSE band(loss)

classify_move_by_cp_loss(cp_before, cp_after, is_white_to_move, move_san, move_number) ==
    IF move_number <= 10 THEN "book"
    ELSE IF IsNone(cp_before) \/ IsNone(cp_after) THEN "normal"
    ELSE LET loss == cp_loss(cp_before, cp_after, is_white_to_move) IN
         IF loss = 0 THEN "best"
         ELSE IF loss <= 5 /\ HasEquals(move_san) THEN "brilliant"
         ELSE band(loss)

----------------------------------------------------------------------------
(* Bounds of the session model *)

MaxProcs == 2

MaxCalls == 4

MaxCancels == 1

----------------------------------------------------------------------------
(* Engine scores (python-chess PovScore): a score is relative to the side  *)
(* to move; a mate score is a sign and a distance, <<-1, 0>> being "the    *)
(* side to move is mated" (Mate(0)) and <<1, 0>> its negation (MateGiven). *)

WHITE == TRUE

BLACK == FALSE

MATE_SCORE == 10000

CpScore(v) == [kind |-> "cp", sign |-> 1, v |-> v]

MateScore(sign, n) == [kind |-> "mate", sign |-> sign, v |-> n]

\* PovScore.white(): the relative score from White's point of view
white(score, turn) ==
    IF turn = WHITE THEN score
    ELSE IF score.kind = "cp" THEN CpScore(-score.v)
    ELSE MateScore(-score.sign, score.v)

\* Score.score(mate_score=10000)
score_cp(score) ==
    IF score.kind = "cp" THEN score.v
    ELSE IF score.sign > 0 THEN MATE_SCORE - score.v
    ELSE -MATE_SCORE + score.v

\* Score.mate(): signed number of moves to mate
score_mate(score) == score.sign * score.v

\* principal variation of the position reached after `plies` plies: tokens
\* <<plies, k>> stand for the k-th move of the line
Pv(plies, len) == [k \in 1..len |-> <<plies, k>>]

\* what a live engine can answer to one analyse request
EngineAnswers ==
    { [score |-> Some(CpScore(-40)),      pvlen |-> 6],
      [score |-> Some(CpScore(25)),       pvlen |-> 1],
      [score |-> Some(MateScore(1, 2)),   pvlen |-> 3],
      [score |-> Some(MateScore(-1, 0)),  pvlen |-> 0],
      [score |-> None,                    pvlen |-> 0] }

\* the "no evaluation" result of analyze_position
NoEval == <<None, None, <<>>>>

----------------------------------------------------------------------------
(* Coroutine frames *)

Ok(v) == [kind |-> "ok", exc |-> "", val |-> v]

Raise(e) == [kind |-> "raise", exc |-> e, val |-> <<>>]

NoRet == [kind |-> "none", exc |-> "", val |-> <<>>]

Top == stack[Len(stack)]

Pop == SubSeq(stack, 1, Len(stack) - 1)

At(fn, pc) == stack # <<>> /\ Top.fn = fn /\ Top.pc = pc

\* the top frame moves to pc
Goto(pc) == /\ stack' = [stack EXCEPT ![Len(stack)].pc = pc]
            /\ UNCHANGED ret

\* the top frame returns or raises r to its caller
Return(r) == /\ stack' = Pop
             /\ ret' = r

\* the top frame awaits fn and resumes at pc when fn has ended
Call(fn, pc) ==
    /\ stack' = Append([stack EXCEPT ![Len(stack)].pc = pc], [fn |-> fn, pc |-> "begin"])
    /\ ret' = NoRet

Live(p) == procs[p] = "running"

\* the process is alive but no longer answers anything it is sent
Wedged(p) == procs[p] = "wedged"

----------------------------------------------------------------------------
(* StockfishAnalyzer.start *)

\* start(), up to the await of popen_uci
StartBegin ==
    /\ At("start", "begin")
    /\ IF self_engine # None
         THEN /\ Return(Ok(<<>>))
              /\ start_outcome' = "noop"
              /\ UNCHANGED failed_starts
         ELSE IF ~path_is_file /\ ~path_default
           THEN /\ Return(Raise("RuntimeError"))
                /\ start_outcome' = "not_found"
                /\ failed_starts' = failed_starts + 1
           ELSE /\ Goto("popen")
                /\ start_outcome' = "launching"
                /\ UNCHANGED failed_starts
    /\ UNCHANGED <<sess, procs, envv, ctl, analyse_outcome>>

\* mutant: the engine handle is stored before the engine has initialised
StartPopen_early_handle ==
    /\ At("start", "popen")
    /\ Len(procs) < MaxProcs
    /\ \/ /\ procs' = Append(procs, "running")
          /\ self_engine' = Some(Len(procs) + 1)
          /\ self_transport' = Some(Len(procs) + 1)
          /\ start_outcome' = "launched"
          /\ UNCHANGED failed_starts
          /\ Return(Ok(<<>>))
       \/ /\ ~path_is_file
          /\ start_outcome' = "not_found"
          /\ failed_starts' = failed_starts + 1
          /\ UNCHANGED <<sess, procs>>
          /\ Return(Raise("RuntimeError"))
       \/ /\ procs' = Append(procs, "dead")
          /\ self_engine' = Some(Len(procs) + 1)
          /\ self_transport' = Some(Len(procs) + 1)
          /\ start_outcome' = "init_failed"
          /\ failed_starts' = failed_starts + 1
          /\ Return(Raise("RuntimeError"))
    /\ UNCHANGED <<envv, ctl, analyse_outcome>>

\* the await of chess.engine.popen_uci ends: the engine is up, or the binary
\* is missing (FileNotFoundError), or the process was spawned and failed to
\* initialise (popen_uci closes it); both failures become RuntimeError
StartPopen ==
    /\ At("start", "popen")
    /\ Len(procs) < MaxProcs
    /\ \/ /\ procs' = Append(procs, "running")
          /\ self_engine' = Some(Len(procs) + 1)
          /\ self_transport' = Some(Len(procs) + 1)
          /\ start_outcome' = "launched"
          /\ UNCHANGED failed_starts
          /\ Return(Ok(<<>>))
       \/ /\ ~path_is_file
          /\ start_outcome' = "not_found"
          /\ failed_starts' = failed_starts + 1
          /\ UNCHANGED <<sess, procs>>
          /\ Return(Raise("RuntimeError"))
       \/ /\ procs' = Append(procs, "dead")
          /\ start_outcome' = "init_failed"
          /\ failed_starts' = failed_starts + 1
          /\ UNCHANGED sess
          /\ Return(Raise("RuntimeError"))
    /\ UNCHANGED <<envv, ctl, analyse_outcome>>

----------------------------------------------------------------------------
(* StockfishAnalyzer.stop *)

\* stop(), up to the await of self._engine.quit(): quit() raises
\* EngineTerminatedError when the process is already gone, otherwise it
\* sends "quit" and waits for the process to exit
StopBegin ==
    /\ At("stop", "begin")
    /\ IF self_engine = None
         THEN /\ Return(Ok(<<>>))
              /\ UNCHANGED procs
         ELSE IF Wedged(Val(self_engine))
           THEN /\ Goto("quit")
                /\ UNCHANGED procs
         ELSE IF ~Live(Val(self_engine))
           THEN /\ Return(Raise("EngineTerminatedError"))
                /\ UNCHANGED procs
           ELSE /\ procs' = [procs EXCEPT ![Val(self_engine)] = "quit"]
                /\ Goto("quit")
    /\ UNCHANGED <<sess, envv, ctl, hist>>

\* the await of quit() ends, once the process has exited, and the handles
\* are dropped
StopQuit ==
    /\ At("stop", "quit")
    /\ ~Wedged(Val(self_engine))
    /\ self_engine' = None
    /\ self_transport' = None
    /\ Return(Ok(<<>>))
    /\ UNCHANGED <<procs, envv, ctl, hist>>

----------------------------------------------------------------------------
(* StockfishAnalyzer.analyze_position *)

\* analyze_position(), up to its first await: start() when there is no
\* engine, else engine.analyse
ApBegin ==
    /\ At("analyze_position", "begin")
    /\ IF self_engine = None
         THEN Call("start", "started")
         ELSE Goto("analyse")
    /\ analyse_outcome' = "none"
    /\ UNCHANGED <<sess, procs, envv, ctl, start_outcome, failed_starts>>

\* start() has ended: an exception of start() is outside the try block
ApStarted ==
    /\ At("analyze_position", "started")
    /\ IF ret.kind = "raise"
         THEN Return(ret)
         ELSE Goto("analyse")
    /\ UNCHANGED <<sess, procs, envv, ctl, hist>>

\* mutant: the engine's score is taken as it comes, relative to the side to move
ap_result_relative(answer, turn, plies) ==
    IF answer.score = None THEN NoEval
    ELSE LET w == Val(answer.score)
             pv == Pv(plies, answer.pvlen) IN
         IF w.kind = "mate" THEN <<Some(score_cp(w)), Some(score_mate(w)), pv>>
                            ELSE <<Some(score_cp(w)), None, pv>>

\* the value analyze_position returns for an engine answer
ap_result(answer, turn, plies) ==
    IF answer.score = None THEN NoEval
    ELSE LET w == white(Val(answer.score), turn)
             pv == Pv(plies, answer.pvlen) IN
         IF w.kind = "mate" THEN <<Some(score_cp(w)), Some(score_mate(w)), pv>>
                            ELSE <<Some(score_cp(w)), None, pv>>

\* mutant: no except clause around engine.analyse
ApAnalyse_no_except ==
    /\ At("analyze_position", "analyse")
    /\ ~Wedged(Val(self_engine))
    /\ \/ /\ Live(Val(self_engine))
          /\ \E answer \in EngineAnswers :
                /\ analyse_outcome' = IF answer.score = None THEN "no_score" ELSE "scored"
                /\ Return(Ok(ap_result(answer, ap_board.turn, ap_board.plies)))
       \/ /\ analyse_outcome' = "failed"
          /\ Return(Raise("EngineError"))
    /\ UNCHANGED <<sess, procs, envv, ctl, start_outcome, failed_starts>>

\* the await of engine.analyse ends: a live engine answers; a dead engine
\* (EngineTerminatedError) or a broken exchange (EngineError) raises, and
\* `except Exception` turns that into (None, None, [])
ApAnalyse ==
    /\ At("analyze_position", "analyse")
    /\ ~Wedged(Val(self_engine))
    /\ \/ /\ Live(Val(self_engine))
          /\ \E answer \in EngineAnswers :
                /\ analyse_outcome' = IF answer.score = None THEN "no_score" ELSE "scored"
                /\ Return(Ok(ap_result(answer, ap_board.turn, ap_board.plies)))
       \/ /\ analyse_outcome' = "failed"
          /\ Return(Ok(NoEval))
    /\ UNCHANGED <<sess, procs, envv, ctl, start_outcome, failed_starts>>

----------------------------------------------------------------------------
(* The environment: engine crashes and task cancellation *)

\* a running engine process dies
ProcCrash ==
    /\ \E p \in 1..Len(procs) :
          /\ Live(p)
          /\ procs' = [procs EXCEPT ![p] = "dead"]
    /\ UNCHANGED <<sess, envv, stack, ret, ctl, hist>>

\* the frames that are suspended in an await of the engine library
Suspended ==
    \/ At("start", "popen")
    \/ At("stop", "quit")
    \/ At("analyze_position", "analyse")

\* the task is cancelled: CancelledError is raised at the await the task is
\* suspended in; it is not an Exception, so no except clause here catches it
Cancel ==
    /\ Suspended
    /\ cancels < MaxCancels
    /\ cancels' = cancels + 1
    /\ Return(Raise("CancelledError"))
    /\ start_outcome' = IF Top.fn = "start" THEN "cancelled" ELSE start_outcome
    /\ analyse_outcome' = IF Top.fn = "analyze_position" THEN "cancelled" ELSE analyse_outcome
    /\ UNCHANGED <<sess, procs, envv, top_op, calls, ap_board, failed_starts>>

----------------------------------------------------------------------------
(* Games and boards.  A board is the side to move, the number of plies     *)
(* played and the material balance in centipawns (White minus Black); a    *)
(* move is its SAN text and the material its mover wins by it.             *)

MaxPlies == 2

GameMoves ==
    { [san |-> <<"N", "f", "3">>, gain |-> 0],
      [san |-> <<"b", "x", "a", "8", "=", "Q">>, gain |-> 1300] }

Games ==
    { [parse |-> "ok", turn |-> t, moves |-> m] :
          t \in {WHITE, BLACK},
          m \in UNION { [1..n -> GameMoves] : n \in 0..MaxPlies } }
    \cup { [parse |-> k, turn |-> WHITE, moves |-> <<>>] : k \in {"none", "error"} }

\* game.board()
StartBoard(turn) == [turn |-> turn, plies |-> 0, material |-> 0]

\* board.push(move)
push(board, move) ==
    [turn |-> ~board.turn,
     plies |-> board.plies + 1,
     material |-> IF board.turn = WHITE THEN board.material + move.gain
                                        ELSE board.material - move.gain]

----------------------------------------------------------------------------
(* cp_to_win_probability: 50 + 50 * (2 / (1 + exp(-0.004 * cp)) - 1), in   *)
(* thousandths of a percentage point (0..100000), by fixed-point           *)
(* arithmetic that stays within 32 bits and within 0.002 of the float.     *)

\* exp(-a) * 10^6 for a = 0, 1, 2, ...
ExpNegTable ==
    <<1000000, 367879, 135335, 49787, 18316, 6738, 2479, 912, 335, 123, 45, 17, 6, 2, 1>>

ExpNegInt(a) == IF a + 1 <= Len(ExpNegTable) THEN ExpNegTable[a + 1] ELSE 0

RECURSIVE ExpNegSeries(_, _, _, _)
\* the Taylor series of exp(-b/250) * 10^6 from term k on
ExpNegSeries(b, k, term, sum) ==
    IF k > 12 THEN sum
    ELSE LET t == (term * b + 125 * k) \div (250 * k) IN
         ExpNegSeries(b, k + 1, t, IF k % 2 = 0 THEN sum + t ELSE sum - t)

\* mutant: the exponent is -0.002 * cp
ExpNeg_halved(cp) ==
    LET ea == ExpNegInt(cp \div 500)
        f == ExpNegSeries((cp % 500) \div 2, 1, 1000000, 1000000)
    IN  (ea * (f \div 1000) + (ea * (f % 1000) + 500) \div 1000 + 500) \div 1000

\* exp(-0.004 * cp) * 10^6 for cp >= 0
ExpNeg(cp) ==
    LET ea == ExpNegInt(cp \div 250)
        f == ExpNegSeries(cp % 250, 1, 1000000, 1000000)
    IN  (ea * (f \div 1000) + (ea * (f % 1000) + 500) \div 1000 + 500) \div 1000

RECURSIVE cp_to_win_probability(_)
cp_to_win_probability(cp) ==
    IF cp < 0 THEN 100000 - cp_to_win_probability(-cp)
    ELSE LET x == ExpNeg(cp)
             d == 1000000 + x
         IN  100000 - (2000 * x + d \div 100) \div (d \div 50)

----------------------------------------------------------------------------
(* services/analysis.py: cp_to_win_probability, classify_move,             *)
(* _heuristic_eval, _generate_comment                                      *)

\* the module's own definition: 50 + 50 * (2 / (1 + exp(-0.004 * centipawns)) - 1)
RECURSIVE analysis_cp_to_win_probability(_)
analysis_cp_to_win_probability(centipawns) ==
    IF centipawns < 0 THEN 100000 - analysis_cp_to_win_probability(-centipawns)
    ELSE LET x == ExpNeg(centipawns)
             d == 1000000 + x
         IN  100000 - (2000 * x + d \div 100) \div (d \div 50)

\* mutant: the thresholds of the drop are inclusive
classify_move_inclusive(prev_win_prob, curr_win_prob, is_white) ==
    LET drop == IF is_white THEN prev_win_prob - curr_win_prob
                            ELSE curr_win_prob - prev_win_prob IN
    IF drop >= 20000 THEN "blunder"
    ELSE IF drop >= 10000 THEN "mistake"
    ELSE IF drop >= 5000 THEN "inaccuracy"
    ELSE IF drop <= -5000 THEN "great"
    ELSE IF drop <= 2000 THEN "best"
    ELSE "normal"

\* classify_move(prev_win_prob, curr_win_prob, is_white), probabilities in
\* thousandths of a point
classify_move(prev_win_prob, curr_win_prob, is_white) ==
    LET drop == IF is_white THEN prev_win_prob - curr_win_prob
                            ELSE curr_win_prob - prev_win_prob IN
    IF drop > 20000 THEN "blunder"
    ELSE IF drop > 10000 THEN "mistake"
    ELSE IF drop > 5000 THEN "inaccuracy"
    ELSE IF drop < -5000 THEN "great"
    ELSE IF drop <= 2000 THEN "best"
    ELSE "normal"

\* material balance plus 10 for the side to move
heuristic_eval(board) ==
    IF board.turn = WHITE THEN board.material + 10 ELSE board.material - 10

\* the comment is text built from the arguments; kept as the tuple of them
generate_comment(classification, move_san, best_move) ==
    IF classification = "blunder" THEN Some(<<"blunder", move_san, best_move>>)
    ELSE IF classification = "mistake" THEN Some(<<"mistake", move_san>>)
    ELSE IF classification = "great" THEN Some(<<"great", move_san>>)
    ELSE None

----------------------------------------------------------------------------
(* StockfishAnalyzer.analyze_game *)

AgIdle ==
    [board |-> StartBoard(WHITE), ply |-> 0, is_white_to_move |-> TRUE,
     san |-> <<>>, move_number |-> 0,
     prev_cp |-> None, prev_mate |-> None, prev_win_prob |-> 0,
     results |-> <<>>]

\* win probability of an evaluation as analyze_game computes it
ag_win_prob(cp, mate) ==
    IF mate # None THEN (IF Val(mate) > 0 THEN 100000 ELSE 0)
    ELSE cp_to_win_probability(IF cp = None THEN 0 ELSE Val(cp))

Min(a, b) == IF a < b THEN a ELSE b

\* mutant: the position before the move is submitted once more
AgIterate_resubmit(a) ==
    IF a.ply + 1 > Len(game.moves)
      THEN /\ ag' = a
           /\ Return(Ok(a.results))
           /\ UNCHANGED ap_board
      ELSE LET move == game.moves[a.ply + 1]
               pushed == push(a.board, move) IN
           /\ ag' = [a EXCEPT !.ply = a.ply + 1,
                              !.is_white_to_move = (a.board.turn = WHITE),
                              !.san = move.san,
                              !.move_number = (a.ply + 1 + 1) \div 2,
                              !.board = pushed]
           /\ ap_board' = a.board
           /\ Call("analyze_position", "after")

\* the head of the loop over the moves from locals a: the next ply is
\* played on the board and its position is submitted, or the list is returned
AgIterate(a) ==
    IF a.ply + 1 > Len(game.moves)
      THEN /\ ag' = a
           /\ Return(Ok(a.results))
           /\ UNCHANGED ap_board
      ELSE LET move == game.moves[a.ply + 1]
               pushed == push(a.board, move) IN
           /\ ag' = [a EXCEPT !.ply = a.ply + 1,
                              !.is_white_to_move = (a.board.turn = WHITE),
                              !.san = move.san,
                              !.move_number = (a.ply + 1 + 1) \div 2,
                              !.board = pushed]
           /\ ap_board' = pushed
           /\ Call("analyze_position", "after")

\* analyze_game(), up to the await of start(): an unparsable PGN returns
\* the empty list
AgBegin ==
    /\ At("analyze_game", "begin")
    /\ IF game.parse # "ok"
         THEN Return(Ok(<<>>))
         ELSE Call("start", "started")
    /\ ag' = AgIdle
    /\ UNCHANGED <<sess, procs, fixed, ctl, hist, pgn_pending, gm>>

\* start() has ended; the starting position is submitted
AgStarted ==
    /\ At("analyze_game", "started")
    /\ IF ret.kind = "raise"
         THEN /\ Return(ret)
              /\ UNCHANGED <<ag, ap_board>>
         ELSE /\ ag' = [ag EXCEPT !.board = StartBoard(game.turn)]
              /\ ap_board' = StartBoard(game.turn)
              /\ Call("analyze_position", "initial")
    /\ UNCHANGED <<sess, procs, fixed, top_op, calls, cancels, hist, pgn_pending, gm>>

\* the starting position has been analysed
AgInitial ==
    /\ At("analyze_game", "initial")
    /\ IF ret.kind = "raise"
         THEN /\ Return(ret)
              /\ UNCHANGED <<ag, ap_board>>
         ELSE AgIterate([ag EXCEPT !.prev_cp = ret.val[1],
                                   !.prev_mate = ret.val[2],
                                   !.prev_win_prob = ag_win_prob(ret.val[1], None)])
    /\ UNCHANGED <<sess, procs, fixed, top_op, calls, cancels, hist, pgn_pending, gm>>

\* the MoveAnalysis of the ply just played, from the locals and the
\* analysis (cp, mate, pv) of the position after it
MoveAnalysis(a, cp, mate, pv) ==
    [ply |-> a.ply,
     move |-> a.san,
     eval_before |-> a.prev_cp,
     eval_after |-> cp,
     mate_before |-> a.prev_mate,
     mate_after |-> mate,
     best_move |-> IF pv # <<>> THEN Some(pv[1]) ELSE None,
     classification |-> classify_move_by_cp_loss(a.prev_cp, cp, a.is_white_to_move,
                                                 a.san, a.move_number),
     pv |-> SubSeq(pv, 1, Min(5, Len(pv)))]

\* mutant: prev_mate is not carried over to the next iteration
AgAfter_stale_mate ==
    /\ At("analyze_game", "after")
    /\ IF ret.kind = "raise"
         THEN /\ Return(ret)
              /\ UNCHANGED <<ag, ap_board>>
         ELSE LET cp == ret.val[1]
                  mate == ret.val[2]
                  pv == ret.val[3] IN
              AgIterate([ag EXCEPT !.results = Append(ag.results, MoveAnalysis(ag, cp, mate, pv)),
                                   !.prev_cp = cp,
                                   !.prev_win_prob = ag_win_prob(cp, mate)])
    /\ UNCHANGED <<sess, procs, fixed, top_op, calls, cancels, hist, pgn_pending, gm>>

\* mutant: the analysis of the game ends at the first position without
\* evaluation, with the records made so far
AgAfter_abort_on_missing ==
    /\ At("analyze_game", "after")
    /\ IF ret.kind = "raise"
         THEN /\ Return(ret)
              /\ UNCHANGED <<ag, ap_board>>
         ELSE IF ret.val = NoEval
           THEN /\ Return(Ok(ag.results))
                /\ UNCHANGED <<ag, ap_board>>
         ELSE LET cp == ret.val[1]
                  mate == ret.val[2]
                  pv == ret.val[3] IN
              AgIterate([ag EXCEPT !.results = Append(ag.results, MoveAnalysis(ag, cp, mate, pv)),
                                   !.prev_cp = cp,
                                   !.prev_mate = mate,
                                   !.prev_win_prob = ag_win_prob(cp, mate)])
    /\ UNCHANGED <<sess, procs, fixed, top_op, calls, cancels, hist, pgn_pending, gm>>

\* the position after the move has been analysed: the move is classified
\* and recorded, and the loop goes on (there is no progress callback here)
AgAfter ==
    /\ At("analyze_game", "after")
    /\ IF ret.kind = "raise"
         THEN /\ Return(ret)
              /\ UNCHANGED <<ag, ap_board>>
         ELSE LET cp == ret.val[1]
                  mate == ret.val[2]
                  pv == ret.val[3] IN
              AgIterate([ag EXCEPT !.results = Append(ag.results, MoveAnalysis(ag, cp, mate, pv)),
                                   !.prev_cp = cp,
                                   !.prev_mate = mate,
                                   !.prev_win_prob = ag_win_prob(cp, mate)])
    /\ UNCHANGED <<sess, procs, fixed, top_op, calls, cancels, hist, pgn_pending, gm>>

----------------------------------------------------------------------------
(* analyze_game_pgn *)

\* analyzer = StockfishAnalyzer(depth); the try block awaits analyze_game
PgnBegin ==
    /\ At("analyze_game_pgn", "begin")
    /\ Call("analyze_game", "analysed")
    /\ UNCHANGED <<sess, procs, fixed, ctl, hist, ag, pgn_pending, gm>>

\* mutant: stop() is awaited after the try block instead of in a finally
PgnFinally_no_finally ==
    /\ At("analyze_game_pgn", "analysed")
    /\ pgn_pending' = ret
    /\ IF ret.kind = "raise"
         THEN Return(ret)
         ELSE Call("stop", "stopped")
    /\ UNCHANGED <<sess, procs, fixed, ctl, hist, ag, gm>>

\* the try block has ended, by return or by exception: finally awaits stop()
PgnFinally ==
    /\ At("analyze_game_pgn", "analysed")
    /\ pgn_pending' = ret
    /\ Call("stop", "stopped")
    /\ UNCHANGED <<sess, procs, fixed, ctl, hist, ag, gm>>

\* stop() has ended: its exception replaces the outcome of the try block
PgnEnd ==
    /\ At("analyze_game_pgn", "stopped")
    /\ IF ret.kind = "raise"
         THEN Return(ret)
         ELSE Return(pgn_pending)
    /\ UNCHANGED <<sess, procs, fixed, ctl, hist, ag, pgn_pending, gm>>

----------------------------------------------------------------------------
(* services/analysis.py: analyze_game_moves *)

GmIdle ==
    [engine |-> None, board |-> StartBoard(WHITE), ply |-> 1,
     prev_win_prob |-> 50000,
     evaluation |-> None, mate |-> None, win_prob |-> 0, best_move_uci |-> None,
     san |-> <<>>, uci |-> <<>>,
     analyzed_moves |-> <<>>, white_errors |-> <<>>, black_errors |-> <<>>,
     pending |-> NoRet]

RECURSIVE SumSeq(_)
SumSeq(s) == IF s = <<>> THEN 0 ELSE s[1] + SumSeq(Tail(s))

Max(a, b) == IF a > b THEN a ELSE b

\* the error of one move: the mover's drop in win probability, never negative
move_error(prev_win_prob, post_win_prob, is_white) ==
    IF is_white THEN Max(0, prev_win_prob - post_win_prob)
                ELSE Max(0, post_win_prob - prev_win_prob)

\* mutant: the errors are summed, not averaged
accuracy_total(errors) ==
    LET acc == IF errors # <<>> THEN 100000 - SumSeq(errors)
                               ELSE 100000 IN
    (Max(0, Min(100000, acc)) + 50) \div 100

\* mutant: an empty list gives 0
accuracy_empty_zero(errors) ==
    LET acc == IF errors # <<>> THEN 100000 - (SumSeq(errors) \div Len(errors))
                               ELSE 0 IN
    (Max(0, Min(100000, acc)) + 50) \div 100

\* round(max(0, min(100, 100 - mean(errors))), 1), in tenths of a point;
\* 100 for an empty list
accuracy(errors) ==
    LET acc == IF errors # <<>> THEN 100000 - (SumSeq(errors) \div Len(errors))
                               ELSE 100000 IN
    (Max(0, Min(100000, acc)) + 50) \div 100

\* the dictionary appended to analyzed_moves for the ply just played
MoveDict(g, fen_after, classification) ==
    [ply |-> g.ply,
     san |-> g.san,
     uci |-> g.uci,
     fen_after |-> fen_after,
     evaluation |-> g.evaluation,
     mate |-> g.mate,
     best_move |-> g.best_move_uci,
     classification |-> classification,
     motifs |-> <<>>,
     comment |-> generate_comment(classification, g.san, g.best_move_uci)]

\* the rest of a loop iteration once post_win_prob is known, from locals g
\* (board already pushed): classify, track the error, record, next ply
GmRecord(g, post_win_prob) ==
    LET is_white == (g.ply % 2 = 1)
        classification == classify_move(g.prev_win_prob, post_win_prob, is_white)
        error == move_error(g.prev_win_prob, post_win_prob, is_white)
    IN  [g EXCEPT !.white_errors = IF is_white THEN Append(g.white_errors, error)
                                               ELSE g.white_errors,
                  !.black_errors = IF is_white THEN g.black_errors
                                               ELSE Append(g.black_errors, error),
                  !.analyzed_moves = Append(g.analyzed_moves,
                                            MoveDict(g, g.board, classification)),
                  !.prev_win_prob = post_win_prob,
                  !.ply = g.ply + 1]

\* the dictionary analyze_game_moves returns
GmResult(g) ==
    [moves |-> g.analyzed_moves,
     white_accuracy |-> accuracy(g.white_errors),
     black_accuracy |-> accuracy(g.black_errors)]

\* analyze_game_moves(), up to the await of popen_uci: an unparsable PGN
\* raises ValueError
GmBegin ==
    /\ At("analyze_game_moves", "begin")
    /\ IF game.parse # "ok"
         THEN /\ Return(Raise("ValueError"))
              /\ UNCHANGED gm
         ELSE /\ gm' = [GmIdle EXCEPT !.board = StartBoard(game.turn)]
              /\ Goto("popen")
    /\ UNCHANGED <<sess, procs, fixed, ctl, hist, ag, pgn_pending>>

\* the await of popen_uci ends: the engine is up, or any Exception leaves
\* engine = None (the binary is missing, or the spawned process failed to
\* initialise and popen_uci closed it)
GmPopen ==
    /\ At("analyze_game_moves", "popen")
    /\ Len(procs) < MaxProcs
    /\ \/ /\ procs' = Append(procs, "running")
          /\ gm' = [gm EXCEPT !.engine = Some(Len(procs) + 1)]
       \/ /\ UNCHANGED <<procs, gm>>
       \/ /\ procs' = Append(procs, "dead")
          /\ UNCHANGED gm
    /\ Goto("loop")
    /\ UNCHANGED <<sess, fixed, ctl, hist, ag, pgn_pending>>

\* the head of the loop: past the last move the try block ends; with an
\* engine the position before the move is submitted; without one the whole
\* iteration runs on _heuristic_eval, with no await in it
GmLoop ==
    /\ At("analyze_game_moves", "loop")
    /\ IF gm.ply > Len(game.moves)
         THEN /\ gm' = [gm EXCEPT !.pending = Ok(<<GmResult(gm)>>)]
              /\ Goto("finally")
         ELSE IF gm.engine # None
           THEN /\ Goto("pre")
                /\ UNCHANGED gm
           ELSE LET move == game.moves[gm.ply]
                    evaluation == heuristic_eval(gm.board)
                    pushed == push(gm.board, move)
                    post_eval == heuristic_eval(pushed)
                    g == [gm EXCEPT !.evaluation = Some(evaluation),
                                    !.mate = None,
                                    !.win_prob = analysis_cp_to_win_probability(evaluation),
                                    !.best_move_uci = None,
                                    !.san = move.san,
                                    !.uci = <<gm.ply>>,
                                    !.board = pushed] IN
                /\ gm' = GmRecord(g, analysis_cp_to_win_probability(-post_eval))
                /\ Goto("loop")
    /\ UNCHANGED <<sess, procs, fixed, ctl, hist, ag, pgn_pending>>

\* an exception leaves the try block for the finally block
GmFail(exc) ==
    /\ gm' = [gm EXCEPT !.pending = Raise(exc)]
    /\ Goto("finally")

\* the await of the pre-move engine.analyse ends: the score is relative to
\* the side to move; a missing score makes score.is_mate() raise
\* AttributeError; a dead engine or a broken exchange raises
GmPre ==
    /\ At("analyze_game_moves", "pre")
    /\ \/ /\ Live(Val(gm.engine))
          /\ \E answer \in EngineAnswers :
                IF answer.score = None THEN GmFail("AttributeError")
                ELSE LET score == Val(answer.score)
                         move == game.moves[gm.ply]
                         pv == Pv(gm.board.plies, answer.pvlen) IN
                     /\ gm' = [gm EXCEPT
                           !.evaluation = IF score.kind = "mate" THEN None
                                          ELSE Some(score_cp(score)),
                           !.mate = IF score.kind = "mate" THEN Some(score_mate(score))
                                    ELSE None,
                           !.win_prob = IF score.kind = "mate"
                                          THEN (IF score_mate(score) > 0 THEN 100000 ELSE 0)
                                          ELSE analysis_cp_to_win_probability(score_cp(score)),
                           !.best_move_uci = IF pv # <<>> THEN Some(pv[1]) ELSE None,
                           !.san = move.san,
                           !.uci = <<gm.ply>>,
                           !.board = push(gm.board, move)]
                     /\ Goto("post")
       \/ GmFail("EngineError")
    /\ UNCHANGED <<sess, procs, fixed, ctl, hist, ag, pgn_pending>>

\* the await of the post-move engine.analyse ends
GmPost ==
    /\ At("analyze_game_moves", "post")
    /\ \/ /\ Live(Val(gm.engine))
          /\ \E answer \in EngineAnswers :
                IF answer.score = None THEN GmFail("AttributeError")
                ELSE LET post_score == Val(answer.score)
                         post_eval == IF post_score.kind = "mate"
                                        THEN (IF score_mate(post_score) > 0
                                                THEN 10000 ELSE -10000)
                                        ELSE score_cp(post_score) IN
                     /\ gm' = GmRecord(gm, analysis_cp_to_win_probability(-post_eval))
                     /\ Goto("loop")
       \/ GmFail("EngineError")
    /\ UNCHANGED <<sess, procs, fixed, ctl, hist, ag, pgn_pending>>

\* the finally block: with an engine, engine.quit() is awaited (it raises
\* EngineTerminatedError when the process is already gone); without one the
\* function ends with the outcome of the try block
GmFinally ==
    /\ At("analyze_game_moves", "finally")
    /\ IF gm.engine # None
         THEN IF ~Live(Val(gm.engine))
                THEN /\ Return(Raise("EngineTerminatedError"))
                     /\ UNCHANGED procs
                ELSE /\ procs' = [procs EXCEPT ![Val(gm.engine)] = "quit"]
                     /\ Goto("quit")
         ELSE /\ Return(gm.pending)
              /\ UNCHANGED procs
    /\ UNCHANGED <<sess, fixed, ctl, hist, ag, pgn_pending, gm>>

\* the await of engine.quit() ends
GmQuit ==
    /\ At("analyze_game_moves", "quit")
    /\ Return(gm.pending)
    /\ UNCHANGED <<sess, procs, fixed, ctl, hist, ag, pgn_pending, gm>>

\* the task is cancelled while analyze_game_moves is suspended: inside the
\* try block CancelledError goes through the finally block, elsewhere it
\* ends the function
GmCancel ==
    /\ stack # <<>>
    /\ Top.fn = "analyze_game_moves"
    /\ Top.pc \in {"popen", "pre", "post", "quit"}
    /\ cancels < MaxCancels
    /\ cancels' = cancels + 1
    /\ IF Top.pc \in {"pre", "post"}
         THEN GmFail("CancelledError")
         ELSE /\ Return(Raise("CancelledError"))
              /\ UNCHANGED gm
    /\ UNCHANGED <<sess, procs, fixed, top_op, calls, ap_board, hist, ag, pgn_pending>>

\* the game document before any analysis: no analysis_status field yet
DocIdle == [analysis_status |-> "pending", analysis_results |-> <<>>,
            statistics |-> None, coach_messages |-> <<>>, analysis_error |-> None]

\* no second coroutine
ParkedIdle == [stack |-> <<>>, ret |-> NoRet]

\* no request for an analysis of the game yet
TrigIdle == [awaiting |-> 0, queued |-> 0, started |-> 0, in_progress |-> 0,
             rejected |-> 0]

\* one caller at a time, and no request through the router
AloneIdle ==
    /\ parked = ParkedIdle
    /\ trig = TrigIdle

AnalysisIdle ==
    /\ game = [parse |-> "none", turn |-> WHITE, moves |-> <<>>]
    /\ ag = AgIdle
    /\ pgn_pending = NoRet
    /\ gm = GmIdle
    /\ doc = DocIdle
    /\ AloneIdle

----------------------------------------------------------------------------
(* A caller that uses one session: start(), stop() and analyze_position()  *)
(* one after the other                                                     *)

SessionOps == {"start", "stop", "analyze_position"}

CallerInvoke ==
    /\ stack = <<>>
    /\ calls < MaxCalls
    /\ \E op \in SessionOps, turn \in {WHITE, BLACK} :
          /\ stack' = <<[fn |-> op, pc |-> "begin"]>>
          /\ top_op' = op
          /\ ap_board' = IF op = "analyze_position"
                            THEN [turn |-> turn, plies |-> 0, material |-> 0]
                            ELSE ap_board
    /\ ret' = NoRet
    /\ calls' = calls + 1
    /\ UNCHANGED <<sess, procs, envv, cancels, hist>>

\* the state of every variable of the session model before anything ran
SessionIdle ==
    /\ self_engine = None
    /\ self_transport = None
    /\ procs = <<>>
    /\ path_is_file = TRUE
    /\ path_default = FALSE
    /\ stack = <<>>
    /\ ret = NoRet
    /\ top_op = "none"
    /\ calls = 0
    /\ cancels = 0
    /\ ap_board = StartBoard(WHITE)
    /\ start_outcome = "none"
    /\ analyse_outcome = "none"
    /\ failed_starts = 0
    /\ AnalysisIdle

PureIdle ==
    /\ p_args = <<>>
    /\ p_pc = "idle"
    /\ p_out = <<>>

ClassifierIdle ==
    /\ c_args = [cp_before |-> None, cp_after |-> None, is_white_to_move |-> TRUE,
                 move_san |-> <<>>, move_number |-> 1]
    /\ c_pc = "idle"
    /\ c_label = "none"
    /\ PureIdle

\* StockfishAnalyzer.__init__: no engine yet; the path is whatever was given
\* or found
Init ==
    /\ ClassifierIdle
    /\ self_engine = None
    /\ self_transport = None
    /\ procs = <<>>
    /\ path_is_file \in BOOLEAN
    /\ path_default \in BOOLEAN
    /\ stack = <<>>
    /\ ret = NoRet
    /\ top_op = "none"
    /\ calls = 0
    /\ cancels = 0
    /\ ap_board = StartBoard(WHITE)
    /\ start_outcome = "none"
    /\ analyse_outcome = "none"
    /\ failed_starts = 0
    /\ AnalysisIdle

Next ==
    \/ CallerInvoke
    \/ StartBegin
    \/ StartPopen
    \/ StopBegin
    \/ StopQuit
    \/ ApBegin
    \/ ApStarted
    \/ ApAnalyse
    \/ ProcCrash
    \/ Cancel

Spec == Init /\ [][Next]_vars

\* a running engine process stops answering: it stays alive and never
\* writes another line
ProcWedge ==
    /\ \E p \in 1..Len(procs) :
          /\ Live(p)
          /\ procs' = [procs EXCEPT ![p] = "wedged"]
    /\ UNCHANGED <<sess, envv, stack, ret, ctl, hist>>

\* the steps of the session's coroutines; the event loop runs a coroutine
\* whenever what it awaits is ready
SessionStep ==
    \/ StartBegin
    \/ StartPopen
    \/ StopBegin
    \/ StopQuit
    \/ ApBegin
    \/ ApStarted
    \/ ApAnalyse

WedgeNext ==
    \/ CallerInvoke
    \/ StartBegin
    \/ StartPopen
    \/ StopBegin
    \/ StopQuit
    \/ ApBegin
    \/ ApStarted
    \/ ApAnalyse
    \/ ProcCrash
    \/ ProcWedge
    \/ Cancel

\* the session with engines that may stop answering; every coroutine step
\* that is ready is eventually run
SpecWedge == Init /\ [][WedgeNext]_vars /\ WF_vars(SessionStep)

----------------------------------------------------------------------------
(* One analysis task: analyze_game_pgn or analyze_game_moves on a game *)

AnalysisOps == {"analyze_game_pgn", "analyze_game_moves"}

\* analyze_game_moves opens its own engine from the STOCKFISH_PATH environment
\* and never reads the analyzer's path, which is left at one value for it
AnalysisInit ==
    /\ ClassifierIdle
    /\ self_engine = None
    /\ self_transport = None
    /\ procs = <<>>
    /\ top_op \in AnalysisOps
    /\ path_is_file \in (IF top_op = "analyze_game_moves" THEN {TRUE} ELSE BOOLEAN)
    /\ path_default \in (IF top_op = "analyze_game_moves" THEN {FALSE} ELSE BOOLEAN)
    /\ stack = <<[fn |-> top_op, pc |-> "begin"]>>
    /\ ret = NoRet
    /\ calls = 1
    /\ cancels = 0
    /\ ap_board = StartBoard(WHITE)
    /\ start_outcome = "none"
    /\ analyse_outcome = "none"
    /\ failed_starts = 0
    /\ game \in Games
    /\ ag = AgIdle
    /\ pgn_pending = NoRet
    /\ gm = GmIdle
    /\ doc = DocIdle
    /\ AloneIdle

AnalysisNext ==
    \/ PgnBegin
    \/ PgnFinally
    \/ PgnEnd
    \/ AgBegin
    \/ AgStarted
    \/ AgInitial
    \/ AgAfter
    \/ StartBegin
    \/ StartPopen
    \/ StopBegin
    \/ StopQuit
    \/ ApBegin
    \/ ApAnalyse
    \/ GmBegin
    \/ GmPopen
    \/ GmLoop
    \/ GmPre
    \/ GmPost
    \/ GmFinally
    \/ GmQuit
    \/ GmCancel
    \/ ProcCrash
    \/ Cancel

SpecAnalysis == AnalysisInit /\ [][AnalysisNext]_vars

----------------------------------------------------------------------------
(* routers/analysis.py: run_analysis_task on the game document `doc`.  The *)
(* database calls succeed; the text of the AI insights is external and is  *)
(* left out of the document (its failures are swallowed by the task).      *)

\* the records of results whose classification is one of labels, in order
RECURSIVE WithClass(_, _)
WithClass(results, labels) ==
    IF results = <<>> THEN <<>>
    ELSE IF Head(results).classification \in labels
           THEN <<Head(results)>> \o WithClass(Tail(results), labels)
           ELSE WithClass(Tail(results), labels)

\* the records of results whose ply has the given parity (1: odd, 0: even)
RECURSIVE WithParity(_, _)
WithParity(results, parity) ==
    IF results = <<>> THEN <<>>
    ELSE IF Head(results).ply % 2 = parity
           THEN <<Head(results)>> \o WithParity(Tail(results), parity)
           ELSE WithParity(Tail(results), parity)

\* round(num / den) of Python: to the nearest integer, a half to the even one
round_half_even(num, den) ==
    LET q == num \div den
        r == num % den IN
    IF 2 * r < den THEN q
    ELSE IF 2 * r > den THEN q + 1
    ELSE IF q % 2 = 0 THEN q ELSE q + 1

\* calc_precision: the share of good moves in percent, 0 for no moves
calc_precision(moves) ==
    IF moves = <<>> THEN 0
    ELSE round_half_even(
             Len(WithClass(moves, {"brilliant", "great", "best", "excellent", "good", "book"})) * 100,
             Len(moves))

Abs(x) == IF x < 0 THEN -x ELSE x

\* abs of the loss of record r, the mover taken from the parity of its ply
\* and a missing evaluation taken as 0
rt_cp_loss(r) ==
    LET cp_before == IF r.eval_before = None THEN 0 ELSE Val(r.eval_before)
        cp_after == IF r.eval_after = None THEN 0 ELSE Val(r.eval_after)
        is_white == (r.ply % 2 = 1) IN
    Abs(IF is_white THEN cp_before - cp_after ELSE cp_after - cp_before)

\* the critical moment of each blunder or mistake, in game order
RECURSIVE CriticalMoments(_)
CriticalMoments(results) ==
    IF results = <<>> THEN <<>>
    ELSE LET r == Head(results) IN
         IF r.classification \in {"blunder", "mistake"}
           THEN <<[move |-> (r.ply + 1) \div 2, played |-> r.move, cp_loss |-> rt_cp_loss(r)]>>
                    \o CriticalMoments(Tail(results))
           ELSE CriticalMoments(Tail(results))

\* m is put into the list sorted by descending cp_loss, after its equals
RECURSIVE InsertDesc(_, _)
InsertDesc(sorted, m) ==
    IF sorted = <<>> THEN <<m>>
    ELSE IF Head(sorted).cp_loss >= m.cp_loss
           THEN <<Head(sorted)>> \o InsertDesc(Tail(sorted), m)
           ELSE <<m>> \o sorted

\* list.sort(key=cp_loss, reverse=True): stable, descending
RECURSIVE SortDesc(_)
SortDesc(ms) ==
    IF ms = <<>> THEN <<>>
    ELSE InsertDesc(SortDesc(SubSeq(ms, 1, Len(ms) - 1)), ms[Len(ms)])

RECURSIVE SumCpLoss(_)
SumCpLoss(rs) == IF rs = <<>> THEN 0 ELSE rt_cp_loss(Head(rs)) + SumCpLoss(Tail(rs))

\* the statistics of a result list; avg_blunder_cp is kept as the fraction
\* <<total, count>>, <<0, 1>> being the 0 of a game without blunders
Statistics(results) ==
    LET blunders == WithClass(results, {"blunder"})
        critical == SortDesc(CriticalMoments(results)) IN
    [total_moves |-> Len(results),
     blunders |-> Len(blunders),
     mistakes |-> Len(WithClass(results, {"mistake"})),
     inaccuracies |-> Len(WithClass(results, {"inaccuracy"})),
     avg_blunder_cp |-> IF blunders # <<>> THEN <<SumCpLoss(blunders), Len(blunders)>>
                                           ELSE <<0, 1>>,
     white_precision |-> calc_precision(WithParity(results, 1)),
     black_precision |-> calc_precision(WithParity(results, 0)),
     top_critical |-> SubSeq(critical, 1, Min(3, Len(critical)))]

\* the coach messages of the blunders, mistakes, brilliant and great moves
RECURSIVE CoachMessages(_)
CoachMessages(results) ==
    IF results = <<>> THEN <<>>
    ELSE LET r == Head(results)
             c == r.classification IN
         IF c \in {"blunder", "mistake"}
           THEN <<[ply |-> r.ply, type |-> "warning", title |-> c, move |-> r.move,
                   bestMove |-> r.best_move]>> \o CoachMessages(Tail(results))
         ELSE IF c \in {"brilliant", "great"}
           THEN <<[ply |-> r.ply, type |-> "praise", title |-> c, move |-> r.move,
                   bestMove |-> None]>> \o CoachMessages(Tail(results))
         ELSE CoachMessages(Tail(results))

\* run_analysis_task(), up to the await of analyze_game_pgn: without a
\* collection, a game document or a PGN text the task returns and leaves the
\* document alone; otherwise the status becomes "analyzing"
RtBegin ==
    /\ At("run_analysis_task", "begin")
    /\ \E fetch \in {"no_collection", "not_found", "no_pgn", "found"} :
          /\ fetch = "no_pgn" => game.parse = "none"
          /\ IF fetch # "found"
               THEN /\ Return(Ok(<<>>))
                    /\ UNCHANGED doc
               ELSE /\ doc' = [doc EXCEPT !.analysis_status = "analyzing"]
                    /\ Call("analyze_game_pgn", "analysed")
    /\ UNCHANGED <<sess, procs, rtfixed, ctl, hist, ag, pgn_pending, gm>>

\* analyze_game_pgn has ended: its Exception is recorded as status "error"
\* (CancelledError is no Exception and leaves the task); with a result list
\* the statistics are computed and the AI insights awaited
RtAnalysed ==
    /\ At("run_analysis_task", "analysed")
    /\ IF ret.kind = "raise"
         THEN IF ret.exc = "CancelledError"
                THEN /\ Return(ret)
                     /\ UNCHANGED doc
                ELSE /\ doc' = [doc EXCEPT !.analysis_status = "error",
                                           !.analysis_error = Some(ret.exc)]
                     /\ Return(Ok(<<>>))
         ELSE /\ Goto("insights")
              /\ UNCHANGED doc
    /\ UNCHANGED <<sess, procs, rtfixed, ctl, hist, ag, pgn_pending, gm>>

\* the insights have been gathered (their failures give empty texts): the
\* document gets the results, the statistics, the coach messages and the
\* status "complete"
RtInsights ==
    /\ At("run_analysis_task", "insights")
    /\ doc' = [doc EXCEPT !.analysis_status = "complete",
                          !.analysis_results = ret.val,
                          !.statistics = Some(Statistics(ret.val)),
                          !.coach_messages = CoachMessages(ret.val)]
    /\ Return(Ok(<<>>))
    /\ UNCHANGED <<sess, procs, rtfixed, ctl, hist, ag, pgn_pending, gm>>

\* the task is cancelled while the insights are awaited
RtCancel ==
    /\ At("run_analysis_task", "insights")
    /\ cancels < MaxCancels
    /\ cancels' = cancels + 1
    /\ Return(Raise("CancelledError"))
    /\ UNCHANGED <<sess, procs, rtfixed, top_op, calls, ap_board, hist, ag,
                   pgn_pending, gm, doc>>

TaskInit ==
    /\ ClassifierIdle
    /\ self_engine = None
    /\ self_transport = None
    /\ procs = <<>>
    /\ path_is_file \in BOOLEAN
    /\ path_default \in BOOLEAN
    /\ top_op = "run_analysis_task"
    /\ stack = <<[fn |-> top_op, pc |-> "begin"]>>
    /\ ret = NoRet
    /\ calls = 1
    /\ cancels = 0
    /\ ap_board = StartBoard(WHITE)
    /\ start_outcome = "none"
    /\ analyse_outcome = "none"
    /\ failed_starts = 0
    /\ game \in Games
    /\ ag = AgIdle
    /\ pgn_pending = NoRet
    /\ gm = GmIdle
    /\ doc = DocIdle
    /\ AloneIdle

TaskNext ==
    \/ RtBegin
    \/ RtAnalysed
    \/ RtInsights
    \/ RtCancel
    \/ PgnBegin
    \/ PgnFinally
    \/ PgnEnd
    \/ AgBegin
    \/ AgStarted
    \/ AgInitial
    \/ AgAfter
    \/ StartBegin
    \/ StartPopen
    \/ StopBegin
    \/ StopQuit
    \/ ApBegin
    \/ ApAnalyse
    \/ ProcCrash
    \/ Cancel

\* one background analysis task on one game document
SpecTask == TaskInit /\ [][TaskNext]_vars

----------------------------------------------------------------------------
(* Specification of one classifier call on any input *)

ClassifyInit ==
    /\ c_args \in ClassifyArgs
    /\ c_pc = "call"
    /\ c_label = "none"
    /\ PureIdle
    /\ SessionIdle

ClassifyCall ==
    /\ c_pc = "call"
    /\ c_label' = classify_move_by_cp_loss(c_args.cp_before, c_args.cp_after,
                     c_args.is_white_to_move, c_args.move_san, c_args.move_number)
    /\ c_pc' = "returned"
    /\ UNCHANGED c_args
    /\ UNCHANGED <<svars, pvars>>

ClassifyNext == ClassifyCall

SpecClassify == ClassifyInit /\ [][ClassifyNext]_vars

----------------------------------------------------------------------------
(* Specification of the accuracy of one colour over any list of moves *)

MaxErrors == 3

\* win probabilities before and after a move, in thousandths of a point
WinProbVals == {0, 49001, 100000}

\* the moves of one colour: for each the win probability before and after
AccuracyArgs ==
    [is_white : BOOLEAN,
     pairs : UNION { [1..n -> WinProbVals \X WinProbVals] : n \in 0..MaxErrors }]

\* the error list analyze_game_moves collects for the colour, and its accuracy
AccuracyOut(args, before) ==
    LET errors == [i \in 1..Len(args.pairs) |->
                      move_error(args.pairs[i][1], args.pairs[i][2], args.is_white)] IN
    [errors |-> errors, accuracy |-> accuracy(errors), before |-> before]

AccuracyInit ==
    /\ c_args = [cp_before |-> None, cp_after |-> None, is_white_to_move |-> TRUE,
                 move_san |-> <<>>, move_number |-> 1]
    /\ c_pc = "idle"
    /\ c_label = "none"
    /\ p_args \in AccuracyArgs
    /\ p_pc = "call"
    /\ p_out = <<>>
    /\ SessionIdle

\* the colour's errors are collected and its accuracy computed
AccuracyCall ==
    /\ p_pc = "call"
    /\ p_out' = AccuracyOut(p_args, None)
    /\ p_pc' = "done"
    /\ UNCHANGED p_args
    /\ UNCHANGED <<svars, cvars>>

\* the same for the game with one more move of the colour
AccuracyAppend ==
    /\ p_pc = "done"
    /\ Len(p_args.pairs) <= MaxErrors
    /\ \E pair \in WinProbVals \X WinProbVals :
          /\ p_args' = [p_args EXCEPT !.pairs = Append(p_args.pairs, pair)]
          /\ p_out' = AccuracyOut(p_args', Some(p_out.accuracy))
    /\ p_pc' = "appended"
    /\ UNCHANGED <<svars, cvars>>

AccuracyNext ==
    \/ AccuracyCall
    \/ AccuracyAppend

SpecAccuracy == AccuracyInit /\ [][AccuracyNext]_vars

----------------------------------------------------------------------------
(* Specification of the classifier where it is called: one call on any    *)
(* input, or the calls analyze_game makes while it analyses a game         *)

RecordsInit ==
    \/ ClassifyInit
    \/ /\ AnalysisInit
       /\ top_op = "analyze_game_pgn"

RecordsNext ==
    \/ ClassifyCall
    \/ PgnBegin
    \/ PgnFinally
    \/ PgnEnd
    \/ AgBegin
    \/ AgStarted
    \/ AgInitial
    \/ AgAfter
    \/ StartBegin
    \/ StartPopen
    \/ StopBegin
    \/ StopQuit
    \/ ApBegin
    \/ ApAnalyse
    \/ ProcCrash
    \/ Cancel

SpecRecords == RecordsInit /\ [][RecordsNext]_vars

----------------------------------------------------------------------------
(* Specification of two classifier calls on the same input, with the calls *)
(* of a session caller running in between                                  *)

\* inputs on both sides of the book window, with and without evaluations
RepeatArgs ==
    { a \in ClassifyArgs :
         /\ a.move_number \in {10, 11}
         /\ a.cp_before \in {None, Some(0)}
         /\ a.cp_after \in {None, Some(-3)}
         /\ a.is_white_to_move
         /\ a.move_san = <<"e", "8", "=", "Q">> }

RepeatInit ==
    /\ c_args \in RepeatArgs
    /\ c_pc = "call"
    /\ c_label = "none"
    /\ PureIdle
    /\ self_engine = None
    /\ self_transport = None
    /\ procs = <<>>
    /\ path_is_file \in BOOLEAN
    /\ path_default \in BOOLEAN
    /\ stack = <<>>
    /\ ret = NoRet
    /\ top_op = "none"
    /\ calls = 0
    /\ cancels = 0
    /\ ap_board = StartBoard(WHITE)
    /\ start_outcome = "none"
    /\ analyse_outcome = "none"
    /\ failed_starts = 0
    /\ AnalysisIdle

\* the classifier is called once more with the arguments of the first call
ClassifyAgain ==
    /\ c_pc = "returned"
    /\ p_pc = "idle"
    /\ p_args' = c_args
    /\ p_out' = <<classify_move_by_cp_loss(c_args.cp_before, c_args.cp_after,
                     c_args.is_white_to_move, c_args.move_san, c_args.move_number)>>
    /\ p_pc' = "returned"
    /\ UNCHANGED <<svars, cvars>>

RepeatNext ==
    \/ ClassifyCall
    \/ ClassifyAgain
    \/ CallerInvoke
    \/ StartBegin
    \/ StartPopen
    \/ StopBegin
    \/ StopQuit
    \/ ApBegin
    \/ ApStarted
    \/ ApAnalyse
    \/ ProcCrash
    \/ Cancel

SpecRepeat == RepeatInit /\ [][RepeatNext]_vars

----------------------------------------------------------------------------
(* Specification of one call of classify_move (services/analysis.py) on    *)
(* any pair of win probabilities                                           *)

\* win probabilities in thousandths of a point, with pairs on both sides of
\* every threshold of the drop
ProbVals ==
    {0, 30000, 39999, 40000, 44999, 45000, 47999, 48000, 50000,
     52000, 52001, 55000, 55001, 60000, 60001, 70000, 70001, 100000}

DeltaArgs == [prev : ProbVals, curr : ProbVals, is_white : BOOLEAN]

DeltaInit ==
    /\ c_args = [cp_before |-> None, cp_after |-> None, is_white_to_move |-> TRUE,
                 move_san |-> <<>>, move_number |-> 1]
    /\ c_pc = "idle"
    /\ c_label = "none"
    /\ p_args \in DeltaArgs
    /\ p_pc = "call"
    /\ p_out = <<>>
    /\ SessionIdle

DeltaCall ==
    /\ p_pc = "call"
    /\ p_out' = <<classify_move(p_args.prev, p_args.curr, p_args.is_white)>>
    /\ p_pc' = "returned"
    /\ UNCHANGED p_args
    /\ UNCHANGED <<svars, cvars>>

DeltaNext == DeltaCall

SpecDelta == DeltaInit /\ [][DeltaNext]_vars

----------------------------------------------------------------------------
(* Specification of cp_to_win_probability, both definitions, on any        *)
(* centipawn value: one call, then the call for the next value             *)

MaxWinCp == 2400

WinProbOut(cp, before) ==
    [sa |-> cp_to_win_probability(cp),
     an |-> analysis_cp_to_win_probability(cp),
     before |-> before]

WinProbInit ==
    /\ c_args = [cp_before |-> None, cp_after |-> None, is_white_to_move |-> TRUE,
                 move_san |-> <<>>, move_number |-> 1]
    /\ c_pc = "idle"
    /\ c_label = "none"
    /\ p_args \in [cp : -MaxWinCp..MaxWinCp]
    /\ p_pc = "call"
    /\ p_out = <<>>
    /\ SessionIdle

WinProbCall ==
    /\ p_pc = "call"
    /\ p_out' = WinProbOut(p_args.cp, None)
    /\ p_pc' = "returned"
    /\ UNCHANGED p_args
    /\ UNCHANGED <<svars, cvars>>

\* the same for the next centipawn value
WinProbStep ==
    /\ p_pc = "returned"
    /\ p_args.cp < MaxWinCp
    /\ p_args' = [cp |-> p_args.cp + 1]
    /\ p_out' = WinProbOut(p_args.cp + 1, Some(p_out.sa))
    /\ p_pc' = "stepped"
    /\ UNCHANGED <<svars, cvars>>

WinProbNext ==
    \/ WinProbCall
    \/ WinProbStep

SpecWinProb == WinProbInit /\ [][WinProbNext]_vars

----------------------------------------------------------------------------
(* Two callers on one session whose calls overlap: the event loop runs one *)
(* coroutine until it awaits, then may run the other.  The calls are       *)
(* start() and analyze_position() on the same board.                       *)

OverlapOps == {"start", "analyze_position"}

\* the coroutine the loop is running has no call in progress: its caller
\* makes the next call
OverlapInvoke ==
    /\ stack = <<>>
    /\ calls < MaxCalls
    /\ \E op \in OverlapOps :
          /\ stack' = <<[fn |-> op, pc |-> "begin"]>>
          /\ top_op' = op
    /\ ret' = NoRet
    /\ calls' = calls + 1
    /\ UNCHANGED <<sess, procs, path_is_file, path_default, game, ag, pgn_pending,
                   gm, doc, cvars, pvars, parked, trig, cancels, ap_board, hist>>

\* the running coroutine is suspended in an await (or has nothing to do) and
\* the loop turns to the other one
Switch ==
    /\ stack = <<>> \/ Suspended
    /\ stack # <<>> \/ parked.stack # <<>>
    /\ stack' = parked.stack
    /\ ret' = parked.ret
    /\ parked' = [stack |-> stack, ret |-> ret]
    /\ UNCHANGED <<sess, procs, path_is_file, path_default, game, ag, pgn_pending,
                   gm, doc, cvars, pvars, trig, ctl, hist>>

OverlapNext ==
    \/ OverlapInvoke
    \/ Switch
    \/ StartBegin
    \/ StartPopen
    \/ ApBegin
    \/ ApStarted
    \/ ApAnalyse
    \/ ProcCrash

SpecOverlap == Init /\ [][OverlapNext]_vars

----------------------------------------------------------------------------
(* routers/analysis.py: trigger_analysis requests for the game, and the    *)
(* background tasks they queue; a queued task starts when the one before   *)
(* it has ended                                                            *)

MaxRequests == 2

\* POST /analyze/{game_id} arrives: the handler awaits find_one
TrRequest ==
    /\ trig.awaiting + trig.started + trig.in_progress + trig.rejected < MaxRequests
    /\ trig' = [trig EXCEPT !.awaiting = trig.awaiting + 1]
    /\ UNCHANGED <<sess, procs, path_is_file, path_default, game, ag, pgn_pending,
                   gm, doc, cvars, pvars, parked, stack, ret, ctl, hist>>

\* find_one has answered: no such game is a 404; a game whose status is
\* "analyzing" gets "in_progress"; otherwise the task is queued and the
\* answer is "started"
TrFound ==
    /\ trig.awaiting > 0
    /\ \E found \in BOOLEAN :
          trig' = IF ~found
                    THEN [trig EXCEPT !.awaiting = trig.awaiting - 1,
                                      !.rejected = trig.rejected + 1]
                  ELSE IF doc.analysis_status = "analyzing"
                    THEN [trig EXCEPT !.awaiting = trig.awaiting - 1,
                                      !.in_progress = trig.in_progress + 1]
                  ELSE [trig EXCEPT !.awaiting = trig.awaiting - 1,
                                    !.queued = trig.queued + 1,
                                    !.started = trig.started + 1]
    /\ UNCHANGED <<sess, procs, path_is_file, path_default, game, ag, pgn_pending,
                   gm, doc, cvars, pvars, parked, stack, ret, ctl, hist>>

\* a queued background task begins: run_analysis_task(game_id, depth), on a
\* StockfishAnalyzer of its own
TaskStart ==
    /\ trig.queued > 0
    /\ stack = <<>>
    /\ trig' = [trig EXCEPT !.queued = trig.queued - 1]
    /\ stack' = <<[fn |-> "run_analysis_task", pc |-> "begin"]>>
    /\ ret' = NoRet
    /\ top_op' = "run_analysis_task"
    /\ calls' = calls + 1
    /\ self_engine' = None
    /\ self_transport' = None
    /\ UNCHANGED <<procs, path_is_file, path_default, game, ag, pgn_pending,
                   gm, doc, cvars, pvars, parked, cancels, ap_board, hist>>

\* the games of at most one move
TriggerGames == { g \in Games : Len(g.moves) <= 1 }

TriggerInit ==
    /\ ClassifierIdle
    /\ self_engine = None
    /\ self_transport = None
    /\ procs = <<>>
    /\ path_is_file \in BOOLEAN
    /\ path_default \in BOOLEAN
    /\ top_op = "none"
    /\ stack = <<>>
    /\ ret = NoRet
    /\ calls = 0
    /\ cancels = 0
    /\ ap_board = StartBoard(WHITE)
    /\ start_outcome = "none"
    /\ analyse_outcome = "none"
    /\ failed_starts = 0
    /\ game \in TriggerGames
    /\ ag = AgIdle
    /\ pgn_pending = NoRet
    /\ gm = GmIdle
    /\ doc = DocIdle
    /\ AloneIdle

TriggerNext ==
    \/ TrRequest
    \/ TrFound
    \/ TaskStart
    \/ RtBegin
    \/ RtAnalysed
    \/ RtInsights
    \/ RtCancel
    \/ PgnBegin
    \/ PgnFinally
    \/ PgnEnd
    \/ AgBegin
    \/ AgStarted
    \/ AgInitial
    \/ AgAfter
    \/ StartBegin
    \/ StartPopen
    \/ StopBegin
    \/ StopQuit
    \/ ApBegin
    \/ ApAnalyse
    \/ ProcCrash
    \/ Cancel

SpecTrigger == TriggerInit /\ [][TriggerNext]_vars

----------------------------------------------------------------------------
(* Claims about classify_move_by_cp_loss *)

c_returned == c_pc = "returned"

c_present == ~IsNone(c_args.cp_before) /\ ~IsNone(c_args.cp_after)

c_promotion == HasEquals(c_args.move_san)

c_loss == cp_loss(c_args.cp_before, c_args.cp_after, c_args.is_white_to_move)

\* C1: every call with move_number <= 10 returns "book", whatever the
\* evaluations (missing ones included), the mover and the SAN text are.
C1_BookWindow ==
    (c_returned /\ c_args.move_number <= 10) => c_label = "book"

\* a promotion by Black at move 10 that loses 350 or so centipawns, and a
\* call with a missing evaluation, were both classified
C1_Witness ==
    /\ c_returned
    /\ c_args.move_number = 10
    /\ c_promotion
    /\ IsNone(c_args.cp_after)
    /\ c_label = "book"

C3_ExactBest ==
    (c_returned /\ c_args.move_number > 10 /\ c_present /\ c_loss = 0)
        => c_label = "best"

\* a promotion by Black with equal evaluations +50/+50 at move 20
C3_Witness ==
    /\ c_returned
    /\ c_args.cp_before = Some(50)
    /\ c_args.cp_after = Some(50)
    /\ ~c_args.is_white_to_move
    /\ c_args.move_number = 20
    /\ c_promotion
    /\ c_label = "best"

\* C4: past the book window, with both evaluations and a non-zero loss, a
\* promotion with loss <= 5 is "brilliant", and a move that is not a
\* promotion is never "brilliant".
C4_Brilliant ==
    c_returned =>
        /\ (c_args.move_number > 10 /\ c_present /\ c_loss # 0 /\ c_promotion /\ c_loss <= 5)
              => c_label = "brilliant"
        /\ ~c_promotion => c_label # "brilliant"

\* a promotion that loses exactly 5 centipawns was classified
C4_Witness ==
    /\ c_returned
    /\ c_args.move_number > 10
    /\ c_present
    /\ c_promotion
    /\ c_loss = 5
    /\ c_label = "brilliant"

\* C5 as claimed: a move with a negative loss gets the label of the same
\* move with loss exactly 0, which is "best".
C5_NegativeAsZero ==
    (c_returned /\ c_args.move_number > 10 /\ c_present /\ c_loss < 0)
        => c_label = classify_move_by_cp_loss(c_args.cp_before, c_args.cp_before,
                         c_args.is_white_to_move, c_args.move_san, c_args.move_number)

\* C5 amended: a move with a negative loss falls in the lowest band, as a
\* move with a loss of 1..5 does: "brilliant" for a promotion, "great"
\* otherwise, and never "best".
C5_NegativeLowestBand ==
    (c_returned /\ c_args.move_number > 10 /\ c_present /\ c_loss < 0)
        => c_label = (IF c_promotion THEN "brilliant" ELSE "great")

\* White's knight move that raises the evaluation from 0 to +120
C5_Witness ==
    /\ c_returned
    /\ c_args.move_number > 10
    /\ c_args.cp_before = Some(0)
    /\ c_args.cp_after = Some(120)
    /\ c_args.is_white_to_move
    /\ ~c_promotion
    /\ c_label = "great"


----------------------------------------------------------------------------
(* Claims about the engine session and the analysis tasks *)

\* the call the caller made has ended
call_ended == stack = <<>> /\ ret.kind # "none"

\* C6: however an analysis ends (return, exception, cancellation at an
\* await), once analyze_game_pgn or analyze_game_moves has ended no engine
\* subprocess it spawned is still running: each was told to quit or is dead.
C6_NoEngineLeftRunning ==
    call_ended => \A p \in 1..Len(procs) : ~Live(p)

\* analyze_game_pgn was cancelled while a position was being analysed, and
\* its engine was told to quit
C6_Witness ==
    /\ call_ended
    /\ top_op = "analyze_game_pgn"
    /\ ret = Raise("CancelledError")
    /\ analyse_outcome = "cancelled"
    /\ procs = <<"quit">>

C8_FailedStartRaises ==
    (call_ended /\ top_op = "start")
        => /\ (start_outcome \in {"not_found", "init_failed"})
                 => /\ ret = Raise("RuntimeError")
                    /\ self_engine = None
                    /\ self_transport = None
           /\ (start_outcome = "noop") => self_engine # None

\* a second start() in a row went as far as spawning a process that failed
\* to initialise, after a first one had failed as well
C8_Witness ==
    /\ call_ended
    /\ top_op = "start"
    /\ start_outcome = "init_failed"
    /\ failed_starts = 2
    /\ ret = Raise("RuntimeError")
    /\ self_engine = None

\* names under which a record could carry a degraded-quality marker
DegradedMarkers == {"degraded", "quality", "evaluator", "fallback", "engine", "source"}

\* C9: when the engine fails to launch the analysis proceeds on the
\* heuristic evaluator instead of failing, and every move record it
\* produces carries a degraded-quality marker.
C9_FallbackMarked ==
    /\ (top_op = "analyze_game_moves" /\ gm.engine = None)
          => \A i \in 1..Len(gm.analyzed_moves) :
                 DOMAIN gm.analyzed_moves[i] \cap DegradedMarkers # {}
    /\ (call_ended /\ top_op = "analyze_game_pgn"
          /\ start_outcome \in {"not_found", "init_failed"})
          => ret.kind = "ok"

----------------------------------------------------------------------------
(* Claims C11..C20 *)

\* C11: every analyze_position call that is waiting for the engine's answer
\* eventually ends, also when the engine never answers (its own timeout
\* tears the session down and raises).
C11_AnalyseEventuallyEnds ==
    At("analyze_position", "analyse") ~> ~At("analyze_position", "analyse")

\* each record after the first starts from the values the one before ended with
C12_Chain ==
    \A i \in 2..Len(ag.results) :
        /\ ag.results[i].eval_before = ag.results[i-1].eval_after
        /\ ag.results[i].mate_before = ag.results[i-1].mate_after

\* the analysis of the starting position becomes the before-values that the
\* first record is made of, and a record's after-values are the analysis of
\* the position its move led to
C12_Step ==
    /\ (At("analyze_game", "initial") /\ ret.kind = "ok" /\ ag' # ag)
          => /\ ag'.prev_cp = ret.val[1]
             /\ ag'.prev_mate = ret.val[2]
    /\ (Len(ag'.results) = Len(ag.results) + 1)
          => LET r == ag'.results[Len(ag'.results)] IN
             /\ r.eval_before = ag.prev_cp
             /\ r.mate_before = ag.prev_mate
             /\ r.eval_after = ret.val[1]
             /\ r.mate_after = ret.val[2]

\* C12: in the list analyze_game builds, every record after the first has
\* eval_before and mate_before equal to eval_after and mate_after of the
\* record before it, and the first record's before-values are the analysis
\* of the starting position; missing evaluations included.
C12_BeforeIsPreviousAfter == [](C12_Chain) /\ [][C12_Step]_vars

\* two records, the first ending and the second starting with a missing
\* evaluation, the second starting from mate values too
C12_Witness ==
    /\ Len(ag.results) = 2
    /\ ag.results[1].eval_after = None
    /\ ag.results[2].eval_before = None
    /\ ag.results[2].eval_after # None
    /\ ag.results[2].mate_after # None

\* an engine answer seen from White's side when `turn` is to move: the
\* engine reports relative to the side to move, so the sign flips for Black
WhiteSign(turn) == IF turn = WHITE THEN 1 ELSE -1

WhiteView(answer, turn, plies) ==
    LET sc == Val(answer.score)
        sw == WhiteSign(turn) * sc.sign IN
    IF sc.kind = "cp"
      THEN <<Some(WhiteSign(turn) * sc.v), None, Pv(plies, answer.pvlen)>>
      ELSE <<Some(sw * (MATE_SCORE - sc.v)), Some(sw * sc.v), Pv(plies, answer.pvlen)>>

\* the colour that played the move of record r
RecordMover(r) == IF r.ply % 2 = 1 THEN game.turn ELSE ~game.turn

\* C13: every centipawn score and mate count analyze_position returns, and
\* so every one stored in a record, is from White's perspective whichever
\* side is to move; the loss of a Black move (after - before) is then how
\* much the position worsened for Black.
C13_WhitePerspective ==
    /\ ((At("analyze_game", "initial") \/ At("analyze_game", "after"))
          /\ ret.kind = "ok" /\ ret.val # NoEval)
         => \E answer \in EngineAnswers :
               /\ answer.score # None
               /\ ret.val = WhiteView(answer, ap_board.turn, ap_board.plies)
    /\ \A i \in 1..Len(ag.results) :
          LET r == ag.results[i] IN
          /\ r.eval_after # None
               => \E answer \in EngineAnswers :
                     /\ answer.score # None
                     /\ r.eval_after = WhiteView(answer, ~RecordMover(r), r.ply)[1]
                     /\ r.mate_after = WhiteView(answer, ~RecordMover(r), r.ply)[2]
          /\ (RecordMover(r) = BLACK /\ r.eval_before # None /\ r.eval_after # None)
               => cp_loss(r.eval_before, r.eval_after, FALSE)
                     = (-Val(r.eval_before)) - (-Val(r.eval_after))

\* with Black to move the engine's -40 has come back as +40, and a Black
\* move with both evaluations is on record
C13_Witness ==
    /\ At("analyze_game", "after")
    /\ ret.kind = "ok"
    /\ ap_board.turn = BLACK
    /\ ret.val[1] = Some(40)
    /\ \E i \in 1..Len(ag.results) :
          /\ RecordMover(ag.results[i]) = BLACK
          /\ ag.results[i].eval_before # None
          /\ ag.results[i].eval_after # None

\* C14: in analyze_game_moves prev_win_prob and post_win_prob are both the
\* probability that White wins, in engine mode and in heuristic mode; here
\* for heuristic mode, where the material count is White's own: the value
\* carried to the next move is White's winning probability of the position
\* on the board.
C14_WinProbIsWhites ==
    (top_op = "analyze_game_moves" /\ gm.engine = None /\ Len(gm.analyzed_moves) >= 1)
        => gm.prev_win_prob = analysis_cp_to_win_probability(heuristic_eval(gm.board))

\* the drop of pair i of the colour's moves, from the mover's side
MoverDrop(i) ==
    IF p_args.is_white THEN p_args.pairs[i][1] - p_args.pairs[i][2]
                       ELSE p_args.pairs[i][2] - p_args.pairs[i][1]

C17_AccuracyMonotonic ==
    p_pc = "appended" =>
        LET n == Len(p_out.errors)
            e == p_out.errors[n]
            before == Val(p_out.before) IN
        /\ e = 0 => p_out.accuracy >= before
        /\ (\A i \in 1..(n - 1) : e >= p_out.errors[i]) => p_out.accuracy <= before

\* an error above the two so far has lowered the accuracy
C17_Witness ==
    /\ p_pc = "appended"
    /\ Len(p_out.errors) = 3
    /\ p_out.errors[3] > p_out.errors[1]
    /\ p_out.errors[3] > p_out.errors[2]
    /\ p_out.errors[2] > 0
    /\ p_out.accuracy < Val(p_out.before)

\* C20 as stated: every classification classify_move_by_cp_loss returns is
\* one of book, best, great, excellent, good, inaccuracy, mistake, blunder,
\* brilliant.
C20_ClosedSet ==
    c_returned =>
        c_label \in {"book", "best", "great", "excellent", "good",
                     "inaccuracy", "mistake", "blunder", "brilliant"}

\* C20 amended: the label is one of those nine or "normal", and it is
\* "normal" exactly when the move is past the book window and an
\* evaluation is missing.
C20_ClosedSetWithNormal ==
    c_returned =>
        /\ c_label \in {"book", "best", "great", "excellent", "good",
                        "inaccuracy", "mistake", "blunder", "brilliant", "normal"}
        /\ c_label = "normal" <=> (c_args.move_number > 10 /\ ~c_present)

\* a move past the book window with no evaluation after it
C20_Witness ==
    /\ c_returned
    /\ c_args.move_number > 10
    /\ c_args.cp_before # None
    /\ c_args.cp_after = None
    /\ c_label = "normal"

\* C18: in every move record the ply is odd exactly when White made the
\* move, and the mover colour analyze_game signs the loss with (the board's
\* side to move) agrees with the parity of the ply, also for a game whose
\* starting position has Black to move.
C18_PlyParityIsMover ==
    /\ \A i \in 1..Len(ag.results) :
          (ag.results[i].ply % 2 = 1) <=> (RecordMover(ag.results[i]) = WHITE)
    /\ (top_op = "analyze_game_pgn" /\ ag.ply >= 1)
          => ((ag.ply % 2 = 1) <=> ag.is_white_to_move)

\* the task has stored its result in the document
TaskComplete == top_op = "run_analysis_task" /\ doc.analysis_status = "complete"

\* C16: a colour that made no move in the analysed game gets the percentage
\* 100; here for white_precision and black_precision of run_analysis_task.
C16_EmptyColourIs100 ==
    TaskComplete =>
        /\ WithParity(doc.analysis_results, 1) = <<>>
              => Val(doc.statistics).white_precision = 100
        /\ WithParity(doc.analysis_results, 0) = <<>>
              => Val(doc.statistics).black_precision = 100

\* C19: a game whose PGN cannot be parsed never ends in the success status
\* (with an empty move list); its analysis ends in status "error".
C19_UnparsableIsError ==
    (top_op = "run_analysis_task" /\ game.parse # "ok")
        => doc.analysis_status # "complete"

----------------------------------------------------------------------------
(* Claims C21..C30 *)

\* the label of a call with a missing evaluation
MissingLabel(move_number) == IF move_number <= 10 THEN "book" ELSE "normal"

\* a call with a missing evaluation has returned "book" or "normal", and so
\* has every call analyze_game made for a record with a missing evaluation
C21_MissingLabels ==
    /\ (c_returned /\ ~c_present) => c_label = MissingLabel(c_args.move_number)
    /\ \A i \in 1..Len(ag.results) :
          LET r == ag.results[i] IN
          (r.eval_before = None \/ r.eval_after = None)
              => r.classification = MissingLabel((r.ply + 1) \div 2)

\* when analyze_position has come back with no evaluation, analyze_game
\* appends the record of the ply, with the evaluation missing, and goes on
\* with the next ply or returns the whole list
C21_Step ==
    (At("analyze_game", "after") /\ ret.kind = "ok" /\ ret.val = NoEval /\ stack' # stack)
        => /\ Len(ag'.results) = Len(ag.results) + 1
           /\ ag'.results[Len(ag'.results)].ply = ag.ply
           /\ ag'.results[Len(ag'.results)].eval_after = None
           /\ \/ /\ At("analyze_position", "begin")'
                 /\ ag'.ply = ag.ply + 1
              \/ /\ ag.ply = Len(game.moves)
                 /\ ret' = Ok(ag'.results)

\* C21: with cp_before or cp_after missing classify_move_by_cp_loss returns
\* "book" when move_number <= 10 and "normal" otherwise, without raising and
\* without arithmetic on the missing value; analyze_game keeps producing
\* records when analyze_position returns a no-evaluation result.
C21_MissingEvaluation == [](C21_MissingLabels) /\ [][C21_Step]_vars

\* a record without evaluation after the move is followed by another record
C21_Witness ==
    /\ Len(ag.results) = 2
    /\ ag.results[1].eval_after = None
    /\ ag.results[1].eval_before # None
    /\ ag.results[2].eval_before = None

d_drop == IF p_args.is_white THEN p_args.prev - p_args.curr
                             ELSE p_args.curr - p_args.prev

\* C23: classify_move(prev, curr, is_white) returns blunder for a drop above
\* 20, else mistake above 10, else inaccuracy above 5, else great below -5,
\* else best up to 2, and "normal" only for a drop above 2 and up to 5.
C23_DeltaBands ==
    p_pc = "returned" =>
        /\ d_drop > 20000 => p_out = <<"blunder">>
        /\ (d_drop > 10000 /\ d_drop <= 20000) => p_out = <<"mistake">>
        /\ (d_drop > 5000 /\ d_drop <= 10000) => p_out = <<"inaccuracy">>
        /\ d_drop < -5000 => p_out = <<"great">>
        /\ (d_drop >= -5000 /\ d_drop <= 2000) => p_out = <<"best">>
        /\ p_out = <<"normal">> <=> (d_drop > 2000 /\ d_drop <= 5000)
        /\ p_out[1] \in {"blunder", "mistake", "inaccuracy", "great", "best", "normal"}

\* a Black move whose drop is exactly 20: a mistake, not yet a blunder
C23_Witness ==
    /\ p_pc = "returned"
    /\ ~p_args.is_white
    /\ d_drop = 20000
    /\ p_out = <<"mistake">>

\* what C24 says of the curve apart from its two ends: it does not
\* decrease, is 50 at cp = 0, stays within [0, 100], and the two
\* definitions agree
w_shape ==
    /\ p_out.sa \in 0..100000
    /\ p_args.cp = 0 => p_out.sa = 50000
    /\ p_pc = "stepped" => p_out.sa >= Val(p_out.before)
    /\ p_out.an = p_out.sa

\* C24 as stated: cp_to_win_probability is non-decreasing, 50 at cp = 0,
\* within [0, 100], within 0.01 of 100 for cp >= 2000 and within 0.01 of 0
\* for cp <= -2000, and the same function in both modules.
C24_WinProbWithin001 ==
    p_pc \in {"returned", "stepped"} =>
        /\ w_shape
        /\ p_args.cp >= 2000 => p_out.sa >= 100000 - 10
        /\ p_args.cp <= -2000 => p_out.sa <= 10

\* C24 amended: the same with the ends within 0.04 of 100 and of 0 from
\* cp = 2000 and cp = -2000 on.
C24_WinProbWithin004 ==
    p_pc \in {"returned", "stepped"} =>
        /\ w_shape
        /\ p_args.cp >= 2000 => p_out.sa >= 100000 - 40
        /\ p_args.cp <= -2000 => p_out.sa <= 40

\* at cp = 2000 the value is more than 0.01 and less than 0.04 below 100
C24_Witness ==
    /\ p_pc = "stepped"
    /\ p_args.cp = 2000
    /\ p_out.sa < 100000 - 10
    /\ p_out.sa >= 100000 - 40
    /\ p_out.sa > Val(p_out.before)

\* a list of one record per move of the game, with plies 1, 2, ... in order
OneRecordPerMove(results) ==
    /\ Len(results) = Len(game.moves)
    /\ \A i \in 1..Len(results) :
          /\ results[i].ply = i
          /\ results[i].move = game.moves[i].san

\* C25: for a parsed game with N moves analyze_game returns exactly N
\* records with plies 1..N in move order, also when evaluations fail: the
\* failed evaluation is missing on the record and the rest of the game is
\* still analysed; the analysis is cut short only by an engine that cannot
\* be started or by cancellation.
C25_OneRecordPerMove ==
    /\ (At("analyze_game_pgn", "analysed") /\ game.parse = "ok")
          => IF ret.kind = "ok" THEN OneRecordPerMove(ret.val)
                                ELSE ret.exc \in {"RuntimeError", "CancelledError"}
    /\ (TaskComplete /\ game.parse = "ok") => OneRecordPerMove(doc.analysis_results)

\* the engine died after the starting position: both records of the game
\* are there, without evaluation after their moves
C25_Witness ==
    /\ At("analyze_game_pgn", "analysed")
    /\ ret.kind = "ok"
    /\ Len(ret.val) = 2
    /\ ret.val[1].eval_before # None
    /\ ret.val[1].eval_after = None
    /\ ret.val[2].eval_after = None
    /\ analyse_outcome = "failed"

\* the analyze_position calls that have not returned yet
Outstanding == { i \in 1..Len(stack) : stack[i].fn = "analyze_position" }

\* at most one request is outstanding; it is for the position after the
\* last ply played, and every position before it has been answered and
\* recorded
C26_OneInOrder ==
    /\ Cardinality(Outstanding) <= 1
    /\ Outstanding # {}
          => /\ ap_board = ag.board
             /\ ap_board.plies = ag.ply
             /\ Len(ag.results) = IF ag.ply = 0 THEN 0 ELSE ag.ply - 1

\* a request is issued when none is outstanding, by analyze_game holding the
\* answer to the one before, and it is for the next position of the game
C26_Submit ==
    (Outstanding = {} /\ Outstanding' # {})
        => \/ /\ At("analyze_game", "started")
              /\ ret.kind = "ok"
              /\ ap_board'.plies = 0
           \/ /\ At("analyze_game", "initial") \/ At("analyze_game", "after")
              /\ ret.kind = "ok"
              /\ ap_board'.plies = ap_board.plies + 1

\* C26: within one analyze_game pass the positions are submitted in game
\* order (the starting position, then the position after ply 1, ply 2, ...),
\* each only after the previous one has been answered, so the engine never
\* has more than one outstanding request.
C26_SequentialRequests == [](C26_OneInOrder) /\ [][C26_Submit]_vars

\* the position after ply 2 is with a running engine; ply 1 is on record
C26_Witness ==
    /\ At("analyze_position", "analyse")
    /\ ap_board.plies = 2
    /\ Len(ag.results) = 1
    /\ Live(Val(self_engine))

\* C30: in every record of analyze_game best_move is the first move of the
\* engine's principal variation for the position before the recorded move
\* (a move of the player who moved), pv holds at most 5 moves, and best_move
\* is the first of them when there is one.
C30_BestMoveIsMovers ==
    \A i \in 1..Len(ag.results) :
        LET r == ag.results[i] IN
        /\ r.best_move # None => Val(r.best_move) = Pv(r.ply - 1, 1)[1]
        /\ Len(r.pv) <= 5
        /\ r.pv # <<>> => r.best_move = Some(r.pv[1])

\* C29: once run_analysis_task has set the status to "analyzing", the
\* status has become "complete" or "error" by the time the task has ended,
\* however it ends: the game is never left in "analyzing" after its task.
C29_NeverLeftAnalyzing ==
    (top_op = "run_analysis_task" /\ stack = <<>>)
        => doc.analysis_status \in {"pending", "complete", "error"}

\* the engine subprocesses of the session that are running
LiveProcs == { p \in 1..Len(procs) : Live(p) }

\* C27: a StockfishAnalyzer never owns more than one live engine
\* subprocess, for every interleaving of calls on the instance, calls that
\* overlap at their awaits included.
C27_OneLiveEngine == Cardinality(LiveProcs) <= 1

\* the run_analysis_task of the game that is executing, as a number
TasksRunning == IF stack # <<>> THEN 1 ELSE 0

\* C28: for every interleaving of trigger_analysis requests for one game at
\* most one run_analysis_task of the game is queued or executing at a time.
C28_OneTaskPerGame == trig.queued + TasksRunning <= 1

====
